---- MODULE Spec2Model ----
(***************************************************************************)
(* Model of the CSS selector builder of src/src/05-objects-tasks.js.       *)
(*                                                                         *)
(* Texts (JavaScript strings) are sequences of one-character strings, so   *)
(* that concatenation, prefixes and brackets are computed, not assumed.    *)
(* The heap is modelled explicitly: `arrays` holds every fragment array    *)
(* ever allocated, `objs` every object a caller can hold a reference to    *)
(* (the facade, chain handles, combined handles).  A chain handle refers   *)
(* to its fragment array by index, so aliasing between handles is what     *)
(* the code makes it, not what the model assumes.                          *)
(*                                                                         *)
(* The properties `current` and `args` that the code assigns (lines 150,   *)
(* 165, 256) are never read by any method and are left out of the state.   *)
(***************************************************************************)
EXTENDS Integers, Sequences, FiniteSets, TLC

VARIABLES arrays, objs, call, ret, rect, rcall

vars == <<arrays, objs, call, ret, rect, rcall>>

(* ---- bounds ---- *)
(* objects a run may create, the facade included; arguments of one combine *)
MaxObjs == 3
MaxArgs == 2
(* widths and heights range over -MaxDim..MaxDim *)
MaxDim == 2

(* the names a caller passes to element/id/class/attr/pseudoClass/pseudoElement *)
Names == {<<"a">>}
(* the combinator strings a caller passes to combine *)
Tokens == {<<"+">>}

(* ---- texts ---- *)
RECURSIVE join(_)
(* Array.prototype.join(''): the concatenation of a sequence of texts *)
join(ts) == IF ts = <<>> THEN <<>> ELSE Head(ts) \o join(Tail(ts))

(* String(n) for the one-digit ranks that join('') converts *)
ToStr(n) == <<CASE n = 0 -> "0" [] n = 1 -> "1" [] n = 2 -> "2"
                [] n = 3 -> "3" [] n = 4 -> "4" [] n = 5 -> "5"
                [] OTHER -> "?">>

(* ---- fragments: the object literals of the six chaining methods ---- *)
element(el) == [value |-> el, unit |-> <<>>, tag |-> TRUE, specific |-> 0]

id(v) == [value |-> v, unit |-> <<"#">>, tag |-> FALSE, specific |-> 1]

class(cl) == [value |-> cl, unit |-> <<".">>, tag |-> FALSE, specific |-> 2]

attr(ar) == [value |-> <<"[">> \o ar \o <<"]">>, unit |-> <<>>, tag |-> FALSE, specific |-> 3]

pseudoClass(pseudoCl) == [value |-> pseudoCl, unit |-> <<":">>, tag |-> FALSE, specific |-> 4]

pseudoElement(pseudoEl) == [value |-> pseudoEl, unit |-> <<":", ":">>, tag |-> FALSE, specific |-> 5]

Methods == {"element", "id", "class", "attr", "pseudoClass", "pseudoElement"}

(* the fragment method m builds from the argument v *)
MakeFragment(m, v) ==
  CASE m = "element" -> element(v)
    [] m = "id" -> id(v)
    [] m = "class" -> class(v)
    [] m = "attr" -> attr(v)
    [] m = "pseudoClass" -> pseudoClass(v)
    [] m = "pseudoElement" -> pseudoElement(v)

(* ---- the two checks ---- *)
DuplicateError == "Element, id and pseudo-element should not occur more then one time inside the selector"
OrderError == "Selector parts should be arranged in the following order: element, id, class, attribute, pseudo-class, pseudo-element"

(* checkOneOfType with '#' left out of the one-of-a-kind test *)
checkOneOfType_NoId(elems, current) ==
  LET oneType == current.tag = TRUE \/ current.unit = <<":", ":">>
      hasInElems == \E i \in 1..Len(elems) :
                      \/ (elems[i].tag = current.tag /\ elems[i].unit = current.unit)
                      \/ elems[i].unit = current.unit
  IN oneType /\ hasInElems

(* checkOneOfType testing `elems.find(...) !== null`: find gives undefined *)
(* when nothing matches, so the test passes for every array               *)
checkOneOfType_NotNull(elems, current) ==
  current.tag = TRUE \/ current.unit = <<":", ":">> \/ current.unit = <<"#">>

(* TRUE when checkOneOfType throws *)
checkOneOfType(elems, current) ==
  LET oneType == current.tag = TRUE \/ current.unit = <<":", ":">> \/ current.unit = <<"#">>
      hasInElems == \E i \in 1..Len(elems) :
                      \/ (elems[i].tag = current.tag /\ elems[i].unit = current.unit)
                      \/ elems[i].unit = current.unit
  IN oneType /\ hasInElems

RECURSIVE InsertBySpecific(_, _)
(* x placed after every item that does not compare greater: a stable insert *)
InsertBySpecific(x, sorted) ==
  IF sorted = <<>> THEN <<x>>
  ELSE IF x.specific - Head(sorted).specific < 0 THEN <<x>> \o sorted
  ELSE <<Head(sorted)>> \o InsertBySpecific(x, Tail(sorted))

RECURSIVE SortBySpecific(_)
(* items.sort((a, b) => a.specific - b.specific): stable, ascending *)
SortBySpecific(items) ==
  IF items = <<>> THEN <<>>
  ELSE InsertBySpecific(items[Len(items)], SortBySpecific(SubSeq(items, 1, Len(items) - 1)))

Specific(item) == ToStr(item.specific)

(* checkOrder sorting items in place, so both orders are read off the sorted array *)
checkOrder_SortInPlace(elems, current) ==
  LET items == SortBySpecific(elems \o <<current>>)
      etalonOrder == [i \in 1..Len(items) |-> Specific(items[i])]
      currentOrder == [i \in 1..Len(items) |-> Specific(items[i])]
  IN join(etalonOrder) # join(currentOrder)

(* checkOrder demanding strictly increasing ranks *)
checkOrder_Strict(elems, current) ==
  \E i \in 1..Len(elems) : elems[i].specific >= current.specific

(* TRUE when checkOrder throws *)
checkOrder(elems, current) ==
  LET items == elems \o <<current>>
      sorted == SortBySpecific(items)
      etalonOrder == [i \in 1..Len(sorted) |-> Specific(sorted[i])]
      currentOrder == [i \in 1..Len(items) |-> Specific(items[i])]
  IN join(etalonOrder) # join(currentOrder)

(* ---- objects ---- *)
(* The facade is the one object made by `new CssSelectorBuilder()`. *)
cssSelectorBuilder == 1

Builder(a, c, b) == [cls |-> "builder", elems |-> a, created |-> c, bound |-> b, data |-> <<>>]

Combined(d) == [cls |-> "combined", elems |-> 0, created |-> FALSE, bound |-> 0, data |-> d]

(* The receiver a method of object h runs with.  The facade inherits the     *)
(* prototype's methods (bound = 0), so a call through it runs on it; a chain *)
(* handle holds bound functions, and binding a bound function again (lines   *)
(* 133-142) keeps the first receiver.                                        *)
This(os, h) == IF os[h].bound = 0 THEN h ELSE os[h].bound

(* the constructor pushing current before it runs the two checks *)
CssSelectorBuilder_PushFirst(current, ctx, arrs, os) ==
  LET fresh == ~os[ctx].created
      new == Len(os) + 1
      ref == IF fresh THEN Len(arrs) + 1 ELSE os[ctx].elems
      arrs1 == IF fresh THEN Append(arrs, <<>>) ELSE arrs
      arrs2 == [arrs1 EXCEPT ![ref] = Append(@, current)]
      thrown == IF fresh THEN ""
                ELSE IF checkOneOfType(arrs1[ref], current) THEN DuplicateError
                ELSE IF checkOrder(arrs1[ref], current) THEN OrderError
                ELSE ""
      context == Builder(ref, TRUE, IF os[ctx].bound = 0 THEN new ELSE os[ctx].bound)
  IN IF thrown # ""
       THEN [thrown |-> thrown, arrays |-> arrs2, objs |-> os, h |-> 0]
       ELSE [thrown |-> "", arrays |-> arrs2, objs |-> Append(os, context), h |-> new]

(* the constructor without `context.elems = []`: a fresh chain keeps the *)
(* array reference it copied from the facade                             *)
CssSelectorBuilder_NoFreshArray(current, ctx, arrs, os) ==
  LET fresh == ~os[ctx].created
      new == Len(os) + 1
      ref == os[ctx].elems
      thrown == IF fresh THEN ""
                ELSE IF checkOneOfType(arrs[ref], current) THEN DuplicateError
                ELSE IF checkOrder(arrs[ref], current) THEN OrderError
                ELSE ""
      context == Builder(ref, TRUE, IF os[ctx].bound = 0 THEN new ELSE os[ctx].bound)
  IN IF thrown # ""
       THEN [thrown |-> thrown, arrays |-> arrs, objs |-> os, h |-> 0]
       ELSE [thrown |-> "", arrays |-> [arrs EXCEPT ![ref] = Append(@, current)],
             objs |-> Append(os, context), h |-> new]

(* the constructor giving the new context its own copy of the array, *)
(* `context.elems = [...ctx.elems]`, before it pushes                 *)
CssSelectorBuilder_CopyArray(current, ctx, arrs, os) ==
  LET fresh == ~os[ctx].created
      new == Len(os) + 1
      ref == Len(arrs) + 1
      old == IF fresh THEN <<>> ELSE arrs[os[ctx].elems]
      thrown == IF fresh THEN ""
                ELSE IF checkOneOfType(old, current) THEN DuplicateError
                ELSE IF checkOrder(old, current) THEN OrderError
                ELSE ""
      context == Builder(ref, TRUE, IF os[ctx].bound = 0 THEN new ELSE os[ctx].bound)
  IN IF thrown # ""
       THEN [thrown |-> thrown, arrays |-> arrs, objs |-> os, h |-> 0]
       ELSE [thrown |-> "", arrays |-> Append(arrs, Append(old, current)),
             objs |-> Append(os, context), h |-> new]

(* the constructor setting `created` on ctx as well as on the copy, so the *)
(* facade stops being fresh after its first call                          *)
CssSelectorBuilder_MarksCtx(current, ctx, arrs, os) ==
  LET fresh == ~os[ctx].created
      new == Len(os) + 1
      ref == IF fresh THEN Len(arrs) + 1 ELSE os[ctx].elems
      arrs1 == IF fresh THEN Append(arrs, <<>>) ELSE arrs
      thrown == IF fresh THEN ""
                ELSE IF checkOneOfType(arrs1[ref], current) THEN DuplicateError
                ELSE IF checkOrder(arrs1[ref], current) THEN OrderError
                ELSE ""
      context == Builder(ref, TRUE, IF os[ctx].bound = 0 THEN new ELSE os[ctx].bound)
  IN IF thrown # ""
       THEN [thrown |-> thrown, arrays |-> arrs, objs |-> os, h |-> 0]
       ELSE [thrown |-> "", arrays |-> [arrs1 EXCEPT ![ref] = Append(@, current)],
             objs |-> Append([os EXCEPT ![ctx].created = TRUE], context), h |-> new]

(* the constructor calling checkOrder before checkOneOfType *)
CssSelectorBuilder_OrderFirst(current, ctx, arrs, os) ==
  LET fresh == ~os[ctx].created
      new == Len(os) + 1
      ref == IF fresh THEN Len(arrs) + 1 ELSE os[ctx].elems
      arrs1 == IF fresh THEN Append(arrs, <<>>) ELSE arrs
      thrown == IF fresh THEN ""
                ELSE IF checkOrder(arrs1[ref], current) THEN OrderError
                ELSE IF checkOneOfType(arrs1[ref], current) THEN DuplicateError
                ELSE ""
      context == Builder(ref, TRUE, IF os[ctx].bound = 0 THEN new ELSE os[ctx].bound)
  IN IF thrown # ""
       THEN [thrown |-> thrown, arrays |-> arrs, objs |-> os, h |-> 0]
       ELSE [thrown |-> "", arrays |-> [arrs1 EXCEPT ![ref] = Append(@, current)],
             objs |-> Append(os, context), h |-> new]

(* new CssSelectorBuilder(current, ctx) with both arguments given.  The     *)
(* result says whether a check threw and gives the heap after the call.    *)
CssSelectorBuilder(current, ctx, arrs, os) ==
  LET fresh == ~os[ctx].created
      new == Len(os) + 1
      ref == IF fresh THEN Len(arrs) + 1 ELSE os[ctx].elems
      arrs1 == IF fresh THEN Append(arrs, <<>>) ELSE arrs
      thrown == IF fresh THEN ""
                ELSE IF checkOneOfType(arrs1[ref], current) THEN DuplicateError
                ELSE IF checkOrder(arrs1[ref], current) THEN OrderError
                ELSE ""
      context == Builder(ref, TRUE, IF os[ctx].bound = 0 THEN new ELSE os[ctx].bound)
  IN IF thrown # ""
       THEN [thrown |-> thrown, arrays |-> arrs, objs |-> os, h |-> 0]
       ELSE [thrown |-> "", arrays |-> [arrs1 EXCEPT ![ref] = Append(@, current)],
             objs |-> Append(os, context), h |-> new]

(* the piece written as el.value + el.unit *)
Piece_ValueFirst(el) == el.value \o el.unit

(* el.unit + el.value *)
Piece(el) == el.unit \o el.value

(* stringify without `this.elems.length = 0` *)
stringify_NoClear(this, arrs, os) ==
  LET current == arrs[os[this].elems]
  IN [text |-> join([i \in 1..Len(current) |-> Piece(current[i])]), arrays |-> arrs]

(* stringify() of the class, run with receiver this *)
stringify(this, arrs, os) ==
  LET current == arrs[os[this].elems]
  IN [text |-> join([i \in 1..Len(current) |-> Piece(current[i])]),
      arrays |-> [arrs EXCEPT ![os[this].elems] = <<>>]]

(* stringify() of the object combine returns: this.data.flat().join('') *)
combinedStringify(this, arrs, os) == [text |-> join(os[this].data), arrays |-> arrs]

(* item.stringify() for any object a caller holds *)
CallStringify(h, arrs, os) ==
  IF os[h].cls = "combined" THEN combinedStringify(h, arrs, os)
  ELSE stringify(This(os, h), arrs, os)

(* the values a caller passes to combine: strings and object references *)
Str(t) == [type |-> "string", str |-> t, ref |-> 0]

Obj(h) == [type |-> "object", str |-> <<>>, ref |-> h]

(* typeof item === 'string' *)
IsString(item) == item.type = "string"

(* typeof item === 'object' && item.stringify: every object of the model has stringify *)
IsSelector(item) == item.type = "object"

RECURSIVE combineMap_NoSpaces(_, _, _)
(* combine returning a string argument as it is, without the two spaces *)
combineMap_NoSpaces(args, arrs, os) ==
  IF args = <<>> THEN [data |-> <<>>, arrays |-> arrs]
  ELSE LET item == Head(args)
           r == IF IsString(item)
                  THEN [text |-> item.str, arrays |-> arrs]
                  ELSE CallStringify(item.ref, arrs, os)
           rest == combineMap_NoSpaces(Tail(args), r.arrays, os)
       IN [data |-> <<r.text>> \o rest.data, arrays |-> rest.arrays]

RECURSIVE combineMap_Peek(_, _, _)
(* combine rendering its selector arguments without emptying them *)
combineMap_Peek(args, arrs, os) ==
  IF args = <<>> THEN [data |-> <<>>, arrays |-> arrs]
  ELSE LET item == Head(args)
           r == IF IsString(item)
                  THEN [text |-> <<" ">> \o item.str \o <<" ">>, arrays |-> arrs]
                  ELSE CallStringify(item.ref, arrs, os)
           rest == combineMap_Peek(Tail(args), arrs, os)
       IN [data |-> <<r.text>> \o rest.data, arrays |-> arrs]

RECURSIVE combineMap(_, _, _)
(* args.map(...) of combine, left to right; every item.stringify() acts on *)
(* the heap the earlier items left                                         *)
combineMap(args, arrs, os) ==
  IF args = <<>> THEN [data |-> <<>>, arrays |-> arrs]
  ELSE LET item == Head(args)
           r == IF IsString(item)
                  THEN [text |-> <<" ">> \o item.str \o <<" ">>, arrays |-> arrs]
                  ELSE CallStringify(item.ref, arrs, os)
           rest == combineMap(Tail(args), r.arrays, os)
       IN [data |-> <<r.text>> \o rest.data, arrays |-> rest.arrays]

(* combine(...args): the new object and the heap after the call *)
combine(args, arrs, os) ==
  LET m == combineMap(args, arrs, os)
  IN [arrays |-> m.arrays, objs |-> Append(os, Combined(m.data)), h |-> Len(os) + 1]

(* ---- results and calls as a caller sees them ---- *)
(* the last call: its operation, the handle it went through, and its inputs *)
Call(op, target, method, arg, args) ==
  [op |-> op, target |-> target, method |-> method, arg |-> arg, args |-> args]

Returned(h) == [kind |-> "handle", h |-> h, text |-> <<>>, err |-> ""]
ReturnedText(t) == [kind |-> "text", h |-> 0, text |-> t, err |-> ""]
Threw(e) == [kind |-> "error", h |-> 0, text |-> <<>>, err |-> e]

Handles == 1..Len(objs)
BuilderHandles == {h \in Handles : objs[h].cls = "builder"}

(* the arguments of combine: combinator strings and the handles a caller got *)
(* from earlier calls                                                        *)
Items == {Str(t) : t \in Tokens} \cup {Obj(h) : h \in Handles \ {cssSelectorBuilder}}

RECURSIVE SeqsUpTo(_, _)
SeqsUpTo(S, n) ==
  IF n = 0 THEN {<<>>}
  ELSE LET shorter == SeqsUpTo(S, n - 1)
       IN shorter \cup {Append(s, x) : s \in {t \in shorter : Len(t) = n - 1}, x \in S}

(* ---- the rectangle ---- *)
Dims == (0 - MaxDim)..MaxDim

(* Rectangle(width, height): the returned object's two fields, and the     *)
(* parameters the arrow function of getArea closes over                    *)
Rectangle(width, height) ==
  [width |-> width, height |-> height, scope |-> [width |-> width, height |-> height]]

(* getArea reading the object's fields instead of the parameters *)
getArea_Fields(r) == r.width * r.height

(* getArea: () => width * height *)
getArea(r) == r.scope.width * r.scope.height

(* the last rectangle operation; w and h are the arguments of the last *)
(* Rectangle call, value the assigned or returned number               *)
RCall(op, w, h, value) == [op |-> op, w |-> w, h |-> h, value |-> value]

(* ---- the state machine ---- *)
Init ==
  /\ arrays = << <<>> >>
  /\ objs = <<Builder(1, FALSE, 0)>>
  /\ call = Call("new", 0, "", <<>>, <<>>)
  /\ ret = Returned(cssSelectorBuilder)
  /\ rect = Rectangle(0, 0)
  /\ rcall = RCall("none", 0, 0, 0)

(* h.element(v), h.id(v), ... on the facade or on a chain handle *)
Chain(h, m, v) ==
  LET current == MakeFragment(m, v)
      r == CssSelectorBuilder(current, This(objs, h), arrays, objs)
  IN /\ r.thrown # "" \/ Len(objs) < MaxObjs
     /\ arrays' = r.arrays
     /\ objs' = r.objs
     /\ call' = Call("append", h, m, v, <<>>)
     /\ ret' = IF r.thrown # "" THEN Threw(r.thrown) ELSE Returned(r.h)
     /\ UNCHANGED <<rect, rcall>>

(* stringify of a combined handle emptying this.data the way the class's *)
(* stringify empties this.elems                                          *)
Stringify_ClearsData(h) ==
  LET r == CallStringify(h, arrays, objs)
  IN /\ arrays' = r.arrays
     /\ objs' = IF objs[h].cls = "combined" THEN [objs EXCEPT ![h].data = <<>>] ELSE objs
     /\ call' = Call("stringify", h, "", <<>>, <<>>)
     /\ ret' = ReturnedText(r.text)
     /\ UNCHANGED <<rect, rcall>>

(* h.stringify() on the facade, a chain handle or a combined handle *)
Stringify(h) ==
  LET r == CallStringify(h, arrays, objs)
  IN /\ arrays' = r.arrays
     /\ objs' = objs
     /\ call' = Call("stringify", h, "", <<>>, <<>>)
     /\ ret' = ReturnedText(r.text)
     /\ UNCHANGED <<rect, rcall>>

(* cssSelectorBuilder.combine(...args).  combine reads nothing of its        *)
(* receiver and writes only this.args, which no method reads, so the call   *)
(* through the facade stands for the call through any handle.               *)
Combine(args) ==
  LET r == combine(args, arrays, objs)
  IN /\ Len(objs) < MaxObjs
     /\ arrays' = r.arrays
     /\ objs' = r.objs
     /\ call' = Call("combine", cssSelectorBuilder, "", <<>>, args)
     /\ ret' = Returned(r.h)
     /\ UNCHANGED <<rect, rcall>>

Next ==
  \/ \E h \in BuilderHandles, m \in Methods, v \in Names : Chain(h, m, v)
  \/ \E h \in Handles : Stringify(h)
  \/ \E args \in SeqsUpTo(Items, MaxArgs) : Combine(args)

Spec == Init /\ [][Next]_vars

(* r = new Rectangle(w, h) *)
NewRectangle(w, h) ==
  /\ rect' = Rectangle(w, h)
  /\ rcall' = RCall("Rectangle", w, h, 0)
  /\ UNCHANGED <<arrays, objs, call, ret>>

(* r.width = v *)
AssignWidth(v) ==
  /\ rcall.op # "none"
  /\ rect' = [rect EXCEPT !.width = v]
  /\ rcall' = RCall("width", rcall.w, rcall.h, v)
  /\ UNCHANGED <<arrays, objs, call, ret>>

(* r.height = v *)
AssignHeight(v) ==
  /\ rcall.op # "none"
  /\ rect' = [rect EXCEPT !.height = v]
  /\ rcall' = RCall("height", rcall.w, rcall.h, v)
  /\ UNCHANGED <<arrays, objs, call, ret>>

(* r.getArea() *)
GetArea ==
  /\ rcall.op # "none"
  /\ rect' = rect
  /\ rcall' = RCall("getArea", rcall.w, rcall.h, getArea(rect))
  /\ UNCHANGED <<arrays, objs, call, ret>>

RectNext ==
  \/ \E w \in Dims, h \in Dims : NewRectangle(w, h)
  \/ \E v \in Dims : AssignWidth(v)
  \/ \E v \in Dims : AssignHeight(v)
  \/ GetArea

(* the rectangle on its own: it shares nothing with the selector builder *)
RectSpec == Init /\ [][RectNext]_vars

(* ---- vocabulary of the properties ---- *)
(* the ranks of the kinds that may occur once: element, id, pseudo-element *)
OneOfAKindRanks == {0, 1, 5}

(* the rank of the fragment a method appends *)
RankOf(m) ==
  CASE m = "element" -> 0 [] m = "id" -> 1 [] m = "class" -> 2
    [] m = "attr" -> 3 [] m = "pseudoClass" -> 4 [] m = "pseudoElement" -> 5

Ranks(frs) == {frs[i].specific : i \in 1..Len(frs)}

(* the fragment sequence a builder handle renders and appends to *)
Fragments(h) == arrays[objs[This(objs, h)].elems]

ChainHandles == BuilderHandles \ {cssSelectorBuilder}

(* the step is an append through a chain handle (a non-fresh chain) *)
ChainedAppend == call'.op = "append" /\ call'.target \in ChainHandles

ThrewDuplicate == ret'.kind = "error" /\ ret'.err = DuplicateError
ThrewOrder == ret'.kind = "error" /\ ret'.err = OrderError

(* C1: in every reachable state the fragments of every chain are in        *)
(* non-decreasing rank order.                                              *)
OrderInvariant ==
  \A a \in 1..Len(arrays) : \A i, j \in 1..Len(arrays[a]) :
    i < j => arrays[a][i].specific <= arrays[a][j].specific

(* an out-of-order append has just been refused on a chain of two fragments *)
OrderWitness ==
  /\ call.op = "append" /\ ret.kind = "error" /\ ret.err = OrderError
  /\ Len(Fragments(call.target)) = 2

(* C2: in every reachable state a chain holds at most one element, at most *)
(* one id and at most one pseudo-element fragment.                         *)
UniquenessInvariant ==
  \A a \in 1..Len(arrays) : \A k \in OneOfAKindRanks :
    Cardinality({i \in 1..Len(arrays[a]) : arrays[a][i].specific = k}) <= 1

(* a second id has just been refused on a chain that holds an id *)
UniquenessWitness ==
  /\ call.op = "append" /\ call.method = "id"
  /\ ret.kind = "error" /\ ret.err = DuplicateError
  /\ 1 \in Ranks(Fragments(call.target))

(* C3: an append through a chain handle throws the duplicate error exactly *)
(* when the new fragment is an element, id or pseudo-element and the chain *)
(* already holds a fragment of that same kind.                             *)
DuplicateIffSameKind ==
  [][ChainedAppend =>
       (ThrewDuplicate <=>
          /\ RankOf(call'.method) \in OneOfAKindRanks
          /\ RankOf(call'.method) \in Ranks(Fragments(call'.target)))]_vars

(* C4: an append through a chain handle that the uniqueness check lets     *)
(* through throws the order error exactly when some fragment of the chain  *)
(* has a higher rank; otherwise it is accepted and is the last fragment.   *)
OrderErrorIffLower ==
  [][(ChainedAppend /\ ~ThrewDuplicate) =>
       LET before == Fragments(call'.target)
           lower == \E k \in Ranks(before) : RankOf(call'.method) < k
       IN /\ ThrewOrder <=> lower
          /\ ~lower =>
               /\ ret'.kind = "handle"
               /\ LET after == arrays'[objs'[ret'.h].elems]
                  IN /\ Len(after) = Len(before) + 1
                     /\ SubSeq(after, 1, Len(before)) = before
                     /\ after[Len(after)].specific = RankOf(call'.method)]_vars

(* an append of a rank equal to the last fragment's rank has been accepted *)
OrderAcceptWitness ==
  /\ call.op = "append" /\ call.target \in ChainHandles /\ ret.kind = "handle"
  /\ Len(Fragments(ret.h)) = 2
  /\ Fragments(ret.h)[1].specific = Fragments(ret.h)[2].specific

(* C5: a chained append that throws leaves every fragment sequence and     *)
(* every object as it was.                                                 *)
FailedAppendAppendsNothing ==
  [][(call'.op = "append" /\ ret'.kind = "error") =>
       (arrays' = arrays /\ objs' = objs)]_vars

(* an append has just been refused while two chains hold fragments *)
FailedAppendWitness ==
  /\ call.op = "append" /\ ret.kind = "error"
  /\ Len(arrays) = 3 /\ arrays[2] # <<>> /\ arrays[3] # <<>>

(* the handles the facade returned: each is the receiver of its own chain *)
Roots(os) == {h \in 2..Len(os) : os[h].cls = "builder" /\ os[h].bound = h}

(* the prefix the claim gives each kind, by rank *)
Glyph(k) ==
  CASE k = 0 -> <<>> [] k = 1 -> <<"#">> [] k = 2 -> <<".">>
    [] k = 3 -> <<>> [] k = 4 -> <<":">> [] k = 5 -> <<":", ":">>

GlyphAndValue(f) == Glyph(f.specific) \o f.value

(* prefix + value of every fragment, in sequence order, no separator *)
ClaimText(frs) == join([i \in 1..Len(frs) |-> GlyphAndValue(frs[i])])

(* what a fragment made by method m from the argument v must render as *)
ExpectedPiece(m, v) ==
  CASE m = "element" -> v
    [] m = "id" -> <<"#">> \o v
    [] m = "class" -> <<".">> \o v
    [] m = "attr" -> <<"[">> \o v \o <<"]">>
    [] m = "pseudoClass" -> <<":">> \o v
    [] m = "pseudoElement" -> <<":", ":">> \o v

BuilderStringify == call'.op = "stringify" /\ call'.target \in BuilderHandles

FacadeHoldsNothing ==
  /\ arrays[objs[cssSelectorBuilder].elems] = <<>>
  /\ (call.op = "stringify" /\ call.target = cssSelectorBuilder) => ret.text = <<>>

(* the facade has just been rendered while a chain holds two fragments *)
FacadeWitness ==
  /\ call.op = "stringify" /\ call.target = cssSelectorBuilder
  /\ \E r \in Roots(objs) : Len(arrays[objs[r].elems]) = 2

(* C8: stringify() through a builder handle returns prefix + value of the  *)
(* fragments of its chain, in append order, with no separator; a fragment  *)
(* appended by a method renders as that method's prefix and its argument,  *)
(* an attribute as '[' expr ']', after the pieces that were there.         *)
StringifyRenders ==
  [][/\ BuilderStringify => ret'.text = ClaimText(Fragments(call'.target))
     /\ (call'.op = "append" /\ ret'.kind = "handle") =>
          LET before == IF call'.target = cssSelectorBuilder THEN <<>>
                        ELSE Fragments(call'.target)
          IN CallStringify(ret'.h, arrays', objs').text =
               ClaimText(before) \o ExpectedPiece(call'.method, call'.arg)]_vars

(* element('a').id('a') has just been rendered as 'a#a' *)
StringifyWitness ==
  /\ call.op = "stringify" /\ call.target \in ChainHandles
  /\ ret.text = <<"a", "#", "a">>

(* C9: stringify() through a builder handle empties the chain, and a       *)
(* stringify() that directly follows one through the same handle returns   *)
(* the empty text.                                                         *)
RenderedOnce ==
  [][BuilderStringify =>
       /\ arrays'[objs'[This(objs', call'.target)].elems] = <<>>
       /\ (call.op = "stringify" /\ call.target = call'.target) => ret'.text = <<>>]_vars

(* with no combine so far, a chain handle has rendered the empty text: its *)
(* fragments went to an earlier stringify()                                *)
RenderedOnceWitness ==
  /\ call.op = "stringify" /\ call.target \in ChainHandles /\ ret.text = <<>>
  /\ \A h \in Handles : objs[h].cls = "builder"

(* the text argument i of combine contributes, read off the state before   *)
(* the call: a chain gives its fragments unless an earlier argument refers *)
(* to the same chain and has taken them                                    *)
ExpectedArg(args, i) ==
  IF args[i].type = "string" THEN <<" ">> \o args[i].str \o <<" ">>
  ELSE IF objs[args[i].ref].cls = "combined" THEN join(objs[args[i].ref].data)
  ELSE IF \E j \in 1..(i - 1) :
            /\ args[j].type = "object"
            /\ objs[args[j].ref].cls = "builder"
            /\ This(objs, args[j].ref) = This(objs, args[i].ref)
       THEN <<>>
  ELSE ClaimText(Fragments(args[i].ref))

ExpectedCombine(args) == join([i \in 1..Len(args) |-> ExpectedArg(args, i)])

(* C10: combine returns a handle whose stringify() is the concatenation,   *)
(* in argument order, of ' ' t ' ' for a string argument t and, for a      *)
(* selector argument, of the text its stringify() returns at combine time. *)
CombineConcatenates ==
  [][call'.op = "combine" =>
       /\ ret'.kind = "handle"
       /\ objs'[ret'.h].cls = "combined"
       /\ CallStringify(ret'.h, arrays', objs').text = ExpectedCombine(call'.args)]_vars

(* combine(element('a'), '+') has just returned a handle that renders 'a + ' *)
CombineWitness ==
  /\ call.op = "combine" /\ Len(call.args) = 2
  /\ call.args[1].type = "object" /\ call.args[2].type = "string"
  /\ ret.kind = "handle"
  /\ join(objs[ret.h].data) = <<"a", " ", "+", " ">>

(* C11: the object Rectangle(w, h) returns has width = w and height = h,   *)
(* and getArea() returns w * h of the constructor arguments, also after    *)
(* the object's width or height has been reassigned.                       *)
RectangleArea ==
  [][/\ rcall'.op = "Rectangle" =>
          (rect'.width = rcall'.w /\ rect'.height = rcall'.h)
     /\ rcall'.op = "getArea" => rcall'.value = rcall'.w * rcall'.h]_vars

(* getArea() has returned w * h of a rectangle whose two fields were both *)
(* reassigned to values with another product                              *)
RectangleWitness ==
  /\ rcall.op = "getArea"
  /\ rect.width # rcall.w /\ rect.height # rcall.h
  /\ rect.width * rect.height # rcall.w * rcall.h
  /\ rcall.value = rcall.w * rcall.h

(* C12, as claimed: an append through a chain handle that succeeds leaves  *)
(* the fragments that handle renders as they were.                         *)
AppendLeavesReceiver ==
  [][(ChainedAppend /\ ret'.kind = "handle") =>
       arrays'[objs'[This(objs', call'.target)].elems] = Fragments(call'.target)]_vars

(* C12, amended: an append through a chain handle that succeeds returns a  *)
(* new object that shares the fragment sequence of the handle it was       *)
(* called through, so that handle now renders its earlier fragments        *)
(* followed by the new one; every handle of a chain refers to the array of *)
(* the chain's first handle.                                               *)
AppendSharesSequence ==
  [][/\ \A h \in 2..Len(objs') :
          objs'[h].cls = "builder" => objs'[h].elems = objs'[This(objs', h)].elems
     /\ (ChainedAppend /\ ret'.kind = "handle") =>
          /\ ret'.h \notin Handles
          /\ objs'[ret'.h].elems = objs[This(objs, call'.target)].elems
          /\ CallStringify(call'.target, arrays', objs').text =
               ClaimText(Fragments(call'.target)) \o ExpectedPiece(call'.method, call'.arg)]_vars

(* h2 = h1.id('a') has succeeded and h1 now has two fragments *)
AppendSharesWitness ==
  /\ call.op = "append" /\ call.target \in ChainHandles /\ ret.kind = "handle"
  /\ ret.h # call.target
  /\ Len(Fragments(call.target)) = 2

(* C13: every chaining call through the facade succeeds and returns a      *)
(* chain that holds exactly the one fragment of that call, whatever the    *)
(* state it is made in.                                                    *)
FirstFragmentUnchecked ==
  [][(call'.op = "append" /\ call'.target = cssSelectorBuilder) =>
       /\ ret'.kind = "handle"
       /\ Len(arrays'[objs'[ret'.h].elems]) = 1
       /\ arrays'[objs'[ret'.h].elems][1].specific = RankOf(call'.method)
       /\ CallStringify(ret'.h, arrays', objs').text =
            ExpectedPiece(call'.method, call'.arg)]_vars

(* a second chain has been started through the facade while the first *)
(* chain holds a fragment of the same one-of-a-kind rank               *)
FirstFragmentWitness ==
  /\ call.op = "append" /\ call.target = cssSelectorBuilder /\ ret.kind = "handle"
  /\ ret.h = 3 /\ objs[2].cls = "builder"
  /\ call.method = "id" /\ 1 \in Ranks(Fragments(2))

(* C14: an append through a chain handle that breaks both rules (its kind  *)
(* is one-of-a-kind and already in the chain, and some fragment of the     *)
(* chain has a higher rank) throws the duplicate error, not the order      *)
(* error.                                                                  *)
DuplicateBeforeOrder ==
  [][(/\ ChainedAppend
      /\ RankOf(call'.method) \in OneOfAKindRanks
      /\ RankOf(call'.method) \in Ranks(Fragments(call'.target))
      /\ \E k \in Ranks(Fragments(call'.target)) : RankOf(call'.method) < k)
       => ThrewDuplicate]_vars

(* a second element has been refused as a duplicate on a chain that holds *)
(* an element followed by a class                                         *)
DuplicateBeforeOrderWitness ==
  /\ call.op = "append" /\ call.target \in ChainHandles /\ call.method = "element"
  /\ ret.kind = "error" /\ ret.err = DuplicateError
  /\ Ranks(Fragments(call.target)) = {0, 2}

CombinedHandles == {h \in Handles : objs[h].cls = "combined"}

CombineConsumes ==
  [][call'.op = "combine" =>
       \A i \in 1..Len(call'.args) :
         (call'.args[i].type = "object" /\ objs[call'.args[i].ref].cls = "builder") =>
           LET h == call'.args[i].ref
               earlier == \E j \in 1..(i - 1) :
                            /\ call'.args[j].type = "object"
                            /\ objs[call'.args[j].ref].cls = "builder"
                            /\ This(objs, call'.args[j].ref) = This(objs, h)
           IN /\ arrays'[objs'[This(objs', h)].elems] = <<>>
              /\ CallStringify(h, arrays', objs').text = <<>>
              /\ objs'[ret'.h].data[i] =
                   IF earlier THEN <<>> ELSE ClaimText(Fragments(h))]_vars

(* combine(h, h) on a chain h that held 'a' has returned a handle with *)
(* the pieces 'a' and '', and h is empty                               *)
CombineConsumesWitness ==
  /\ call.op = "combine" /\ Len(call.args) = 2
  /\ call.args[1] = call.args[2] /\ call.args[1].type = "object"
  /\ objs[call.args[1].ref].cls = "builder"
  /\ objs[ret.h].data = << <<"a">>, <<>> >>
  /\ Fragments(call.args[1].ref) = <<>>

(* C17: an append through a chain handle whose chain is empty (stringify() *)
(* emptied it) succeeds for every kind, and the chain then renders only    *)
(* that fragment; this holds in particular for the append that directly    *)
(* follows a stringify() of the same chain.                                *)
ReusableAfterStringify ==
  [][(/\ ChainedAppend
      /\ \/ Fragments(call'.target) = <<>>
         \/ /\ call.op = "stringify" /\ call.target \in ChainHandles
            /\ This(objs, call.target) = This(objs, call'.target))
       =>
       /\ ret'.kind = "handle"
       /\ CallStringify(call'.target, arrays', objs').text =
            ExpectedPiece(call'.method, call'.arg)]_vars

(* the second handle of a chain was returned by an append and the chain   *)
(* holds one fragment: the first handle's fragment went to a stringify()  *)
(* (no combine has happened), and the append went through the emptied     *)
(* chain                                                                   *)
ReusableWitness ==
  /\ call.op = "append" /\ call.target = 2 /\ ret.kind = "handle" /\ ret.h = 3
  /\ CombinedHandles = {}
  /\ Len(Fragments(2)) = 1

====
